---- MODULE Spec2Model ----
(***************************************************************************)
(* A model of weather-mcp: the Weatherstack provider client               *)
(* (fetchWeatherData), the two /mcp request handlers (the JSON-RPC        *)
(* handler app.all('/mcp') and the simplified handler app.post('/mcp')),  *)
(* the CLI entry points and the library function getWeatherForCity.       *)
(*                                                                         *)
(* JavaScript values are records whose field name is their type:          *)
(* [undefined |-> TRUE], [null |-> TRUE], [num |-> n], [str |-> s] and    *)
(* objects as records of their attributes.  A string is the sequence of   *)
(* its pieces: " " is a run of whitespace, "." the method separator, and  *)
(* every other piece is text that holds neither.                          *)
(***************************************************************************)
EXTENDS Integers, Sequences, FiniteSets, TLC

VARIABLES env, reqs, cli, lib

vars == <<env, reqs, cli, lib>>

----------------------------------------------------------------------------
(* Bounds of the model. *)

\* The most '.'-separated segments of a method name a caller sends.
MaxSegments == 3

\* The most entries of the provider's weather_descriptions list.
MaxDescriptions == 2

\* The most positional arguments on a command line.
MaxArgs == 2

----------------------------------------------------------------------------
(* JavaScript values. *)

Undefined == [undefined |-> TRUE]

Null == [null |-> TRUE]

Num(n) == [num |-> n]

Str(s) == [str |-> s]

IsUndefined(v) == DOMAIN v = {"undefined"}

IsNull(v) == DOMAIN v = {"null"}

IsNum(v) == DOMAIN v = {"num"}

IsStr(v) == DOMAIN v = {"str"}

\* typeof v === 'object' && v !== null
IsObject(v) == ~IsUndefined(v) /\ ~IsNull(v) /\ ~IsNum(v) /\ ~IsStr(v)

\* ToBoolean: undefined, null, 0 and "" are falsy, everything else is truthy.
Truthy(v) ==
  CASE IsUndefined(v) -> FALSE
    [] IsNull(v) -> FALSE
    [] IsNum(v) -> v.num # 0
    [] IsStr(v) -> Len(v.str) > 0
    [] OTHER -> TRUE

\* o.name: the attribute, or undefined when the object has none.  Reading an
\* attribute of a string or a number gives undefined; of undefined or null it
\* throws, which the callers test with CanRead first.
Get(o, name) == IF name \in DOMAIN o /\ IsObject(o) THEN o[name] ELSE Undefined

CanRead(o) == ~IsUndefined(o) /\ ~IsNull(o)

----------------------------------------------------------------------------
(* Strings. *)

RECURSIVE TrimStart(_)
TrimStart(s) ==
  IF s # <<>> /\ Head(s) = " " THEN TrimStart(Tail(s)) ELSE s

RECURSIVE TrimEnd(_)
TrimEnd(s) ==
  IF s # <<>> /\ s[Len(s)] = " " THEN TrimEnd(SubSeq(s, 1, Len(s) - 1)) ELSE s

\* String.prototype.trim
Trim(s) == TrimEnd(TrimStart(s))

\* String.prototype.includes, for a one-piece needle
Includes(s, piece) == \E i \in 1..Len(s) : s[i] = piece

IndexOf(s, piece) ==
  IF Includes(s, piece)
  THEN CHOOSE i \in 1..Len(s) : s[i] = piece /\ \A j \in 1..(i - 1) : s[j] # piece
  ELSE 0

\* String.prototype.split(sep): the list of the pieces between the separators.
RECURSIVE Split(_, _)
Split(s, sep) ==
  IF ~Includes(s, sep)
  THEN <<s>>
  ELSE LET i == IndexOf(s, sep)
       IN  <<SubSeq(s, 1, i - 1)>> \o Split(SubSeq(s, i + 1, Len(s)), sep)

\* Array.prototype.join(sep) of a list of strings
RECURSIVE Join(_, _)
Join(list, sep) ==
  IF list = <<>> THEN <<>>
  ELSE IF Len(list) = 1 THEN list[1]
  ELSE list[1] \o sep \o Join(Tail(list), sep)

\* All sequences over S of a length in lo..hi
SeqsOf(S, lo, hi) == UNION {[1..n -> S] : n \in lo..hi}

----------------------------------------------------------------------------
(* Arrays: [arr |-> <<v1, ..., vn>>]; typeof gives 'object' for them too. *)

Arr(list) == [arr |-> list]

IsArray(v) == DOMAIN v = {"arr"}

\* a[0]: the first element, or undefined when the array is empty
First(a) == IF Len(a.arr) > 0 THEN a.arr[1] ELSE Undefined

\* a.join(sep) of an array of strings
JoinArr(a, sep) == Str(Join([i \in 1..Len(a.arr) |-> a.arr[i].str], sep))

----------------------------------------------------------------------------
(* Errors: [name, message]; the message is a string (a list of pieces), and *)
(* 'API key' is a piece of its own wherever a message holds that text.      *)

Error(message) == [name |-> "Error", message |-> message]

TypeError(message) == [name |-> "TypeError", message |-> message]

CityRequired == Error(<<"City parameter is required">>)

CredentialMissing ==
  Error(<<"No Weatherstack ", "API key",
          " provided. Please set WEATHERSTACK_API_KEY environment variable.">>)

ProviderTransportError(statusText) == Error(<<"Weatherstack API error: ">> \o statusText)

ProviderCredentialError(info) ==
  Error(<<"Weatherstack ", "API key", " error: ">> \o info)

ProviderDomainError(info) == Error(<<"Weatherstack API error: ">> \o info)

Throw(e) == [tag |-> "throw", error |-> e]

Return(v) == [tag |-> "return", value |-> v]

----------------------------------------------------------------------------
(* The access credential. *)

DEFAULT_API_KEY == Str(<<"a07119cef2e19d493340c892615a1397">>)

\* process.env.WEATHERSTACK_API_KEY: unset, empty, or a key of the user's
EnvValues == {Undefined, Str(<<>>), Str(<<"userkey">>)}

\* A credential read from the environment alone
ApiKeyNoFallback(e) == e

\* process.env.WEATHERSTACK_API_KEY || DEFAULT_API_KEY
ApiKeyFrom(e) == IF Truthy(e) THEN e ELSE DEFAULT_API_KEY

WEATHERSTACK_API_KEY == ApiKeyFrom(env)

\* WEATHERSTACK_API_KEY && WEATHERSTACK_API_KEY.length > 0
isValidApiKey == Truthy(WEATHERSTACK_API_KEY) /\ Len(WEATHERSTACK_API_KEY.str) > 0

----------------------------------------------------------------------------
(* The provider and its replies to one outbound GET.                       *)

\* The codes the provider reports a credential failure with
CredentialCodes == {101, 102, 103}

\* The provider's error codes of the model: the three credential codes and
\* one other (615, request failed)
ErrorCodes == CredentialCodes \cup {615}

\* The info text of a provider error: with or without the words 'API key'
ErrorInfos == {<<"request failed">>, <<"check your ", "API key">>}

ErrorPayload(code, info) ==
  [success |-> Str(<<"false">>),
   error |-> [code |-> Num(code), type |-> Str(<<"error">>), info |-> Str(info)]]

\* The two payload versions: every field's value names its field and the
\* version, so that a field copied from the wrong place shows.
Versions == {"a", "b"}

Val(field, v) == Str(<<field, v>>)

Descriptions == {"Cloudy", "Rain"}

DescriptionLists ==
  {[i \in 1..Len(l) |-> Str(<<l[i]>>)] : l \in SeqsOf(Descriptions, 0, MaxDescriptions)}

\* A well-formed payload of the provider's current-weather endpoint
WeatherPayload(v, descs) ==
  [request |-> [type |-> Val("type", v), query |-> Val("query", v)],
   location |-> [name |-> Val("name", v), country |-> Val("country", v),
                 region |-> Val("region", v), lat |-> Val("lat", v),
                 lon |-> Val("lon", v), timezone_id |-> Val("timezone_id", v),
                 localtime |-> Val("localtime", v),
                 utc_offset |-> Val("utc_offset", v)],
   current |-> [observation_time |-> Val("observation_time", v),
                temperature |-> Val("temperature", v),
                weather_code |-> Val("weather_code", v),
                weather_icons |-> Arr(<<Val("icon1", v), Val("icon2", v)>>),
                weather_descriptions |-> Arr(descs),
                wind_speed |-> Val("wind_speed", v),
                wind_degree |-> Val("wind_degree", v),
                wind_dir |-> Val("wind_dir", v),
                pressure |-> Val("pressure", v),
                precip |-> Val("precip", v),
                humidity |-> Val("humidity", v),
                cloudcover |-> Val("cloudcover", v),
                feelslike |-> Val("feelslike", v),
                uv_index |-> Val("uv_index", v),
                visibility |-> Val("visibility", v),
                is_day |-> Val("is_day", v)]]

WellFormedPayloads ==
  {WeatherPayload(v, descs) : v \in Versions, descs \in DescriptionLists}

\* Payloads that parse but are no weather report: JSON null, and an object
\* with neither an error nor a location
MalformedPayloads == {Null, [success |-> Str(<<"true">>)]}

JsonBodies ==
  {ErrorPayload(c, i) : c \in ErrorCodes, i \in ErrorInfos}
    \cup WellFormedPayloads \cup MalformedPayloads

\* What one outbound request can end in: fetch rejects (no connection); a
\* response that is not ok; an ok response whose body is no JSON; an ok
\* response with a JSON body.
ProviderReplies ==
  {[kind |-> "reject"], [kind |-> "status", statusText |-> <<"Bad Gateway">>],
   [kind |-> "badjson"]}
    \cup {[kind |-> "json", data |-> d] : d \in JsonBodies}

FetchError == [name |-> "FetchError", message |-> <<"request to provider failed">>]

SyntaxError == [name |-> "SyntaxError", message |-> <<"Unexpected token in JSON">>]

----------------------------------------------------------------------------
(* fetchWeatherData(city): the part before the await of fetch, and the part *)
(* after it.                                                                *)

\* Up to `await fetch(apiUrl)`: a throw, or the outbound call with its query.
FetchStart(city) ==
  IF ~Truthy(city) THEN Throw(CityRequired)
  ELSE IF ~isValidApiKey THEN Throw(CredentialMissing)
  ELSE IF ~IsStr(city) THEN Throw(TypeError(<<"city.trim is not a function">>))
  ELSE [tag |-> "call", access_key |-> WEATHERSTACK_API_KEY, query |-> Trim(city.str)]

\* data.error present: classified by its code
ClassifyError(err) ==
  IF \E c \in CredentialCodes : Get(err, "code") = Num(c)
  THEN Throw(ProviderCredentialError(Get(err, "info").str))
  ELSE Throw(ProviderDomainError(Get(err, "info").str))

\* From the provider's reply on: the parsed payload, or a throw.
FetchFinish(reply) ==
  CASE reply.kind = "reject" -> Throw(FetchError)
    [] reply.kind = "status" -> Throw(ProviderTransportError(reply.statusText))
    [] reply.kind = "badjson" -> Throw(SyntaxError)
    [] OTHER ->
         IF ~CanRead(reply.data)
         THEN Throw(TypeError(<<"Cannot read properties of null (reading 'error')">>))
         ELSE IF Truthy(Get(reply.data, "error"))
         THEN ClassifyError(Get(reply.data, "error"))
         ELSE Return(reply.data)

----------------------------------------------------------------------------
(* Response construction, shared by both handlers. *)

\* The sentinel of a failed lookup
UnavailableResult ==
  [status |-> Str(<<"not available">>),
   message |-> Str(<<"Weather data is currently not available">>)]

\* A result object that keeps only the first description
NormalizeFirstDescription(data) ==
  LET location == Get(data, "location")
      current == Get(data, "current")
  IN  IF ~CanRead(location) \/ ~CanRead(current)
        \/ ~IsArray(Get(current, "weather_descriptions"))
        \/ ~IsArray(Get(current, "weather_icons"))
      THEN Throw(TypeError(<<"Cannot read properties of undefined">>))
      ELSE Return(
        [city |-> Get(location, "name"),
         country |-> Get(location, "country"),
         region |-> Get(location, "region"),
         localtime |-> Get(location, "localtime"),
         current |->
           [temperature |-> Get(current, "temperature"),
            temperatureUnit |-> Str(<<"C">>),
            weather |-> First(Get(current, "weather_descriptions")),
            weatherIcon |-> First(Get(current, "weather_icons")),
            windSpeed |-> Get(current, "wind_speed"),
            windDirection |-> Get(current, "wind_dir"),
            humidity |-> Get(current, "humidity"),
            feelsLike |-> Get(current, "feelslike"),
            uvIndex |-> Get(current, "uv_index"),
            visibility |-> Get(current, "visibility"),
            precipitation |-> Get(current, "precip"),
            cloudCover |-> Get(current, "cloudcover"),
            pressure |-> Get(current, "pressure")]])

\* The result object built from the provider's payload; reading an attribute
\* of a missing location or current, or joining what is no array, throws.
Normalize(data) ==
  LET location == Get(data, "location")
      current == Get(data, "current")
  IN  IF ~CanRead(location) \/ ~CanRead(current)
        \/ ~IsArray(Get(current, "weather_descriptions"))
        \/ ~IsArray(Get(current, "weather_icons"))
      THEN Throw(TypeError(<<"Cannot read properties of undefined">>))
      ELSE Return(
        [city |-> Get(location, "name"),
         country |-> Get(location, "country"),
         region |-> Get(location, "region"),
         localtime |-> Get(location, "localtime"),
         current |->
           [temperature |-> Get(current, "temperature"),
            temperatureUnit |-> Str(<<"C">>),
            weather |-> JoinArr(Get(current, "weather_descriptions"), <<", ">>),
            weatherIcon |-> First(Get(current, "weather_icons")),
            windSpeed |-> Get(current, "wind_speed"),
            windDirection |-> Get(current, "wind_dir"),
            humidity |-> Get(current, "humidity"),
            feelsLike |-> Get(current, "feelslike"),
            uvIndex |-> Get(current, "uv_index"),
            visibility |-> Get(current, "visibility"),
            precipitation |-> Get(current, "precip"),
            cloudCover |-> Get(current, "cloudcover"),
            pressure |-> Get(current, "pressure")]])

\* fetchWeatherData was not invoked
NotInvoked == [tag |-> "none"]

\* What a handler does up to its first await: it responds (having invoked
\* fetchWeatherData, which threw, or not), or it awaits the outbound call.
Respond(r) == [tag |-> "respond", resp |-> r, fetch |-> NotInvoked]

RespondAfter(r, f) == [tag |-> "respond", resp |-> r, fetch |-> f]

Await(call) == [tag |-> "await", fetch |-> call]

----------------------------------------------------------------------------
(* The JSON-RPC handler, app.all('/mcp'). *)

JSONRPC == Str(<<"2.0">>)

\* id || null
IdOrNull(id) == IF Truthy(id) THEN id ELSE Null

RpcResult(id, result) ==
  [status |-> 200, body |-> [jsonrpc |-> JSONRPC, id |-> IdOrNull(id), result |-> result]]

RpcRejection(id, code, message, data) ==
  [status |-> 200,
   body |-> [jsonrpc |-> JSONRPC, id |-> IdOrNull(id),
             error |-> [code |-> code, message |-> message, data |-> data]]]

\* The descriptor of the protocol, its one tool and its one operation
Capabilities ==
  [protocol |-> [name |-> "mcp", version |-> "0.1.0"],
   tools |-> [weather |-> [operations |-> [currentWeather |-> [parameters |-> {"city"}]]]]]

CapabilitiesResponse ==
  [status |-> 200, body |-> [jsonrpc |-> JSONRPC, result |-> Capabilities]]

\* An outer catch that reports the fault as an invalid request
InternalErrorAsInvalidRequest ==
  [status |-> 400,
   body |-> [jsonrpc |-> JSONRPC,
             error |-> [code |-> -32600, message |-> "Invalid Request",
                        data |-> <<"An unexpected error occurred">>]]]

\* The outer catch: no id is sent.
InternalError ==
  [status |-> 500,
   body |-> [jsonrpc |-> JSONRPC,
             error |-> [code |-> -32603, message |-> "Internal error",
                        data |-> <<"An unexpected error occurred">>]]]

MethodNotAllowed(verb) ==
  [status |-> 405,
   body |-> [jsonrpc |-> JSONRPC,
             error |-> [code |-> -32600, message |-> "Invalid Request",
                        data |-> <<"HTTP method ", verb, " not supported">>]]]

\* A version check that only asks for some version marker
VersionRejectedIfAbsent(jsonrpc) == ~Truthy(jsonrpc)

\* !jsonrpc || jsonrpc !== '2.0'
VersionRejected(jsonrpc) == ~Truthy(jsonrpc) \/ jsonrpc # JSONRPC

\* A resolution without the default tool: a bare name is taken as the tool too
ResolveMethodNoDefault(method) ==
  IF Includes(method, ".")
  THEN LET parts == Split(method, ".")
       IN  [tool |-> Str(parts[1]), operation |-> Str(parts[2])]
  ELSE [tool |-> Str(method), operation |-> Str(method)]

\* The (tool, operation) of a method name that is a string
ResolveMethod(method) ==
  IF Includes(method, ".")
  THEN LET parts == Split(method, ".")
       IN  [tool |-> Str(parts[1]), operation |-> Str(parts[2])]
  ELSE [tool |-> Str(<<"weather">>), operation |-> Str(method)]

\* An extraction that takes whatever is no object as the city
ExtractCityUntyped(params) ==
  IF IsObject(params) THEN Get(params, "city") ELSE params

\* The city of the params: an object's city attribute, or the string itself
ExtractCity(params) ==
  IF IsObject(params) THEN Get(params, "city")
  ELSE IF IsStr(params) THEN params
  ELSE Undefined

\* An inner catch that reports the failure as a rejection
CurrentWeatherCatchAsError(id, error) ==
  RpcRejection(id, -32603, "Internal error", error.message)

\* The inner catch of the currentWeather branch
CurrentWeatherCatch(id, error) == RpcResult(id, UnavailableResult)

\* The currentWeather branch up to the await of fetchWeatherData
CurrentWeatherStart(id, params) ==
  LET city == ExtractCity(params)
  IN  IF ~Truthy(city)
      THEN Respond(RpcRejection(id, -32602, "Invalid params",
                                <<"City parameter is required">>))
      ELSE LET f == FetchStart(city)
           IN  IF f.tag = "throw"
               THEN RespondAfter(CurrentWeatherCatch(id, f.error), f)
               ELSE Await(f)

\* The handler up to its first await, or to its response
McpAllStart(verb, body) ==
  IF verb = "GET" THEN Respond(CapabilitiesResponse)
  ELSE IF verb # "POST" THEN Respond(MethodNotAllowed(verb))
  ELSE IF ~CanRead(body) THEN Respond(InternalError)
  ELSE
    LET jsonrpc == Get(body, "jsonrpc")
        id == Get(body, "id")
        method == Get(body, "method")
        params == Get(body, "params")
    IN  IF VersionRejected(jsonrpc)
        THEN Respond(RpcRejection(id, -32600, "Invalid Request",
                       <<"Request must follow JSON-RPC 2.0 specification">>))
        ELSE IF ~Truthy(method)
        THEN Respond(RpcRejection(id, -32600, "Invalid Request",
                                  <<"Method is required">>))
        ELSE IF ~IsStr(method) THEN Respond(InternalError)
        ELSE
          LET m == ResolveMethod(method.str)
          IN  IF m.tool # Str(<<"weather">>)
              THEN Respond(RpcRejection(id, -32601, "Method not found",
                     <<"Unsupported tool: ">> \o m.tool.str
                       \o <<". Currently only 'weather' tool is supported.">>))
              ELSE IF m.operation = Str(<<"currentWeather">>)
              THEN CurrentWeatherStart(id, params)
              ELSE Respond(RpcRejection(id, -32601, "Method not found",
                     <<"Unsupported operation: ">> \o m.operation.str))

\* The handler from the provider's reply on
McpAllFinish(body, reply) ==
  LET id == Get(body, "id")
      f == FetchFinish(reply)
  IN  IF f.tag = "throw" THEN CurrentWeatherCatch(id, f.error)
      ELSE LET n == Normalize(f.value)
           IN  IF n.tag = "throw" THEN CurrentWeatherCatch(id, n.error)
               ELSE RpcResult(id, n.value)

----------------------------------------------------------------------------
(* The simplified handler, app.get('/mcp') and app.post('/mcp'). *)

SimpleResult(result) == [status |-> 200, body |-> [result |-> result]]

SimpleRejection(status, text) == [status |-> status, body |-> [error |-> text]]

SimpleCapabilitiesResponse == [status |-> 200, body |-> Capabilities]

\* The outer catch
SimpleFault(error) ==
  [status |-> 500,
   body |-> [error |-> error.message, message |-> <<"Weather data is not available">>]]

\* The inner catch
SimpleCatch(error) == SimpleResult(UnavailableResult)

\* What `${v}` prints
Text(v) == IF IsStr(v) THEN v.str ELSE <<"undefined">>

McpPostStart(body) ==
  IF ~CanRead(body)
  THEN Respond(SimpleFault(TypeError(<<"Cannot destructure property 'tool'">>)))
  ELSE
    LET tool == Get(body, "tool")
        operation == Get(body, "operation")
        parameters == Get(body, "parameters")
    IN  IF tool # Str(<<"weather">>)
        THEN Respond(SimpleRejection(400,
               <<"Unsupported tool: ">> \o Text(tool)
                 \o <<". Currently only 'weather' tool is supported.">>))
        ELSE IF operation = Str(<<"currentWeather">>)
        THEN IF ~CanRead(parameters)
             THEN Respond(SimpleCatch(TypeError(<<"Cannot read properties of undefined">>)))
             ELSE LET f == FetchStart(Get(parameters, "city"))
                  IN  IF f.tag = "throw" THEN RespondAfter(SimpleCatch(f.error), f)
                      ELSE Await(f)
        ELSE Respond(SimpleRejection(400,
               <<"Unsupported operation: ">> \o Text(operation)))

McpPostFinish(reply) ==
  LET f == FetchFinish(reply)
  IN  IF f.tag = "throw" THEN SimpleCatch(f.error)
      ELSE LET n == Normalize(f.value)
           IN  IF n.tag = "throw" THEN SimpleCatch(n.error)
               ELSE SimpleResult(n.value)

----------------------------------------------------------------------------
(* The library functions of module.exports. *)

Resolved(v) == [tag |-> "resolved", value |-> v]

Rejected(e) == [tag |-> "rejected", error |-> e]

\* A catch that passes the failure on
GetWeatherCatchRethrow(error) == Rejected(error)

\* The catch of getWeatherForCity
GetWeatherCatch(error) == Resolved(UnavailableResult)

\* How the promise of fn settles once fetchWeatherData has thrown or returned
Settle(fn, f) ==
  IF f.tag = "throw"
  THEN IF fn = "getWeatherForCity" THEN GetWeatherCatch(f.error) ELSE Rejected(f.error)
  ELSE Resolved(f.value)

----------------------------------------------------------------------------
(* The command line: bin/cli.js, and the CLI mode of src/index.js. *)

\* Array.prototype.join(' ') of the arguments
JoinArgs(args) == Join(args, <<" ">>)

UsageText == <<<<"Usage:">>, <<"  weather-mcp <city>">>>>

DefaultKeyWarning == <<<<"Warning: Using the default Weatherstack API key">>>>

\* The lines the .then handler prints before it ends or throws: the first
\* three read the location, the next one the current conditions, the fifth
\* joins the descriptions.
ReportLines(data) ==
  LET location == Get(data, "location")
      current == Get(data, "current")
      head == IF ~CanRead(location) THEN <<>>
              ELSE << <<"Current Weather for ">> \o Text(Get(location, "name"))
                        \o <<", ">> \o Text(Get(location, "country")),
                      <<"==========">>,
                      <<"Date & Time: ">> \o Text(Get(location, "localtime")) >>
      temp == IF ~CanRead(location) \/ ~CanRead(current) THEN <<>>
              ELSE << <<"Temperature: ">> \o Text(Get(current, "temperature"))
                        \o <<" (Feels like: ">> \o Text(Get(current, "feelslike")) >>
      rest == IF temp = <<>> \/ ~IsArray(Get(current, "weather_descriptions")) THEN <<>>
              ELSE << <<"Weather: ">>
                        \o JoinArr(Get(current, "weather_descriptions"), <<", ">>).str,
                      <<"Wind: ">> \o Text(Get(current, "wind_speed"))
                        \o Text(Get(current, "wind_dir")),
                      <<"Humidity: ">> \o Text(Get(current, "humidity")),
                      <<"Visibility: ">> \o Text(Get(current, "visibility")),
                      <<"Pressure: ">> \o Text(Get(current, "pressure")),
                      <<"UV Index: ">> \o Text(Get(current, "uv_index")),
                      <<"Data source: Weatherstack API">> >>
  IN  head \o temp \o rest

\* The .then handler ran to its end
ReportComplete(lines) ==
  lines # <<>> /\ lines[Len(lines)] = <<"Data source: Weatherstack API">>

CredentialLines(error) ==
  << <<"API Key Error: ">> \o error.message,
     <<"Please set your Weatherstack API key using:">>,
     <<"export WEATHERSTACK_API_KEY=\"your_api_key_here\"">> >>

GenericLines == << <<"Weather data is not available">> >>

\* The .catch handler
CliCatch(error) ==
  IF Includes(error.message, "API key") THEN CredentialLines(error) ELSE GenericLines

\* What the promise chain prints once fetchWeatherData has thrown or returned
CliSettle(f) ==
  IF f.tag = "throw" THEN CliCatch(f.error)
  ELSE LET lines == ReportLines(f.value)
       IN  IF ReportComplete(lines) THEN lines
           ELSE lines \o CliCatch(TypeError(<<"Cannot read properties of undefined">>))

\* The process after src/index.js ran as the main module or was required:
\* its CLI mode runs only when it is the main module.
IndexModule(requireMain, args) ==
  LET warning == IF requireMain /\ WEATHERSTACK_API_KEY = DEFAULT_API_KEY
                 THEN DefaultKeyWarning ELSE <<>>
      cityArg == IF Len(args) > 0 THEN JoinArgs(Tail(args)) ELSE <<>>
  IN  IF ~requireMain
      THEN [pc |-> "exited", exit |-> 0, out |-> warning, cityArg |-> <<>>,
            lookups |-> 0, fetch |-> NotInvoked]
      ELSE IF Len(args) > 0 /\ args[1] = <<"weather">>
      THEN IF cityArg = <<>>
           THEN [pc |-> "exited", exit |-> 1,
                 out |-> warning \o <<<<"Please provide a city name.">>>>,
                 cityArg |-> cityArg, lookups |-> 0, fetch |-> NotInvoked]
           ELSE LET f == FetchStart(Str(cityArg))
                    fetching == <<<<"Fetching weather data for ">> \o cityArg>>
                IN  IF f.tag = "throw"
                    THEN [pc |-> "exited", exit |-> 0,
                          out |-> warning \o fetching \o CliSettle(f),
                          cityArg |-> cityArg, lookups |-> 1, fetch |-> f]
                    ELSE [pc |-> "awaiting", exit |-> 0,
                          out |-> warning \o fetching,
                          cityArg |-> cityArg, lookups |-> 1, fetch |-> f]
      ELSE [pc |-> "serving", exit |-> 0,
            out |-> warning \o <<<<"Weather MCP server running">>>>,
            cityArg |-> <<>>, lookups |-> 0, fetch |-> NotInvoked]

\* bin/cli.js: usage without arguments; otherwise it rewrites process.argv
\* and requires src/index.js, of which it, not index.js, is the main module.
CliEntry(args) ==
  IF Len(args) = 0
  THEN [pc |-> "exited", exit |-> 0, out |-> UsageText, cityArg |-> <<>>,
        lookups |-> 0, fetch |-> NotInvoked]
  ELSE IndexModule(FALSE, <<<<"weather">>, JoinArgs(args)>>)

----------------------------------------------------------------------------
(* The requests a caller can send. *)

\* The most requests in flight at once
MaxInFlight == 2

Slots == 1..MaxInFlight

\* City values: absent, a number, and strings (empty, plain, whitespace
\* only, and with whitespace around)
CityValues ==
  {Undefined, Num(5), Str(<<>>), Str(<<"London">>), Str(<<" ">>),
   Str(<<" ", "London", " ">>)}

CityStrings == {c \in CityValues : IsStr(c)}

\* params: absent, null, a number, an array, a string, an object with a city
\* attribute, an object without one
ParamValues ==
  {Undefined, Null, Num(5), Arr(<<Str(<<"London">>)>>), [town |-> Str(<<"London">>)]}
    \cup CityStrings \cup {[city |-> c] : c \in CityValues}

SegmentTexts == {<<>>, <<"weather">>, <<"currentWeather">>, <<"x">>}

\* method: absent, a number, or segments joined with the separator
MethodValues ==
  {Undefined, Num(5)}
    \cup {Str(Join(segs, <<".">>)) : segs \in SeqsOf(SegmentTexts, 1, MaxSegments)}

VersionValues == {Undefined, JSONRPC, Str(<<"1.0">>)}

IdValues == {Undefined, Null, Num(0), Num(7), Str(<<>>), Str(<<"abc">>)}

\* req.body of a POST to the JSON-RPC handler: none, or an envelope
RpcBodies ==
  {Undefined}
    \cup [jsonrpc : VersionValues, id : IdValues, method : MethodValues,
          params : ParamValues]

NameValues == {Undefined, Str(<<"weather">>), Str(<<"currentWeather">>), Str(<<"x">>)}

\* req.body of a POST to the simplified handler
SimpleBodies ==
  {Undefined}
    \cup [tool : NameValues, operation : NameValues,
          parameters : {Undefined, Str(<<"London">>)} \cup {[city |-> c] : c \in CityValues}]

Verbs == {"GET", "POST", "PUT"}

----------------------------------------------------------------------------
(* The state: the environment the process started in, the requests in      *)
(* flight, the command-line process and the library call.                  *)

NoReply == [kind |-> "none"]

NoResponse == [status |-> 0]

IdleReq ==
  [st |-> "idle", handler |-> "", verb |-> "", body |-> Undefined,
   fetch |-> NotInvoked, outbound |-> 0, reply |-> NoReply,
   resp |-> NoResponse, sent |-> 0]

\* A command-line argument: empty, a word, or the word weather
ArgTexts == {<<>>, <<"New">>, <<"York">>, <<"weather">>}

ArgLists == SeqsOf(ArgTexts, 0, MaxArgs)

\* What a library caller passes as the city
LibCities == CityValues \cup {Null}

IdleCli ==
  [pc |-> "idle", entry |-> "", args |-> <<>>, exit |-> 0, out |-> <<>>,
   cityArg |-> <<>>, lookups |-> 0, fetch |-> NotInvoked, outbound |-> 0,
   reply |-> NoReply]

IdleLib ==
  [pc |-> "idle", fn |-> "", city |-> Undefined, fetch |-> NotInvoked,
   outbound |-> 0, reply |-> NoReply, settled |-> [tag |-> "pending"]]

Init ==
  /\ env \in EnvValues
  /\ reqs = [s \in Slots |-> IdleReq]
  /\ cli = IdleCli
  /\ lib = IdleLib

\* The request record after the handler ran up to its first await
Started(handler, verb, body, h) ==
  IF h.tag = "respond"
  THEN [st |-> "done", handler |-> handler, verb |-> verb, body |-> body,
        fetch |-> h.fetch, outbound |-> 0, reply |-> NoReply,
        resp |-> h.resp, sent |-> 1]
  ELSE [st |-> "awaiting", handler |-> handler, verb |-> verb, body |-> body,
        fetch |-> h.fetch, outbound |-> 1, reply |-> NoReply,
        resp |-> NoResponse, sent |-> 0]

\* A request arrives at app.all('/mcp'): a GET or another verb without a
\* body, or a POST with one
ReceiveAll(s) ==
  /\ reqs[s].st = "idle"
  /\ \E verb \in Verbs :
       \E body \in (IF verb = "POST" THEN RpcBodies ELSE {Undefined}) :
         reqs' = [reqs EXCEPT ![s] =
                    Started("app.all", verb, body, McpAllStart(verb, body))]
  /\ UNCHANGED <<env, cli, lib>>

\* A request arrives at app.get('/mcp') of the simplified variant
ReceiveGet(s) ==
  /\ reqs[s].st = "idle"
  /\ reqs' = [reqs EXCEPT ![s] =
                Started("app.get", "GET", Undefined, Respond(SimpleCapabilitiesResponse))]
  /\ UNCHANGED <<env, cli, lib>>

\* A request arrives at app.post('/mcp') of the simplified variant
ReceivePost(s) ==
  /\ reqs[s].st = "idle"
  /\ \E body \in SimpleBodies :
       reqs' = [reqs EXCEPT ![s] = Started("app.post", "POST", body, McpPostStart(body))]
  /\ UNCHANGED <<env, cli, lib>>

\* A continuation that sends the response before it reads the payload, so
\* that a throw makes the catch send a second one
AnsweredInTryAndCatch(s, reply) ==
  LET f == FetchFinish(reply)
      thrown == f.tag = "throw" \/ Normalize(f.value).tag = "throw"
  IN  [reqs[s] EXCEPT !.st = "done",
                      !.fetch = f,
                      !.reply = reply,
                      !.resp = IF reqs[s].handler = "app.all"
                               THEN McpAllFinish(reqs[s].body, reply)
                               ELSE McpPostFinish(reply),
                      !.sent = @ + (IF thrown THEN 2 ELSE 1)]

\* The request record of slot s once its outbound request has ended in reply
\* and the handler has run on to its response
Answered(s, reply) ==
  [reqs[s] EXCEPT !.st = "done",
                  !.fetch = FetchFinish(reply),
                  !.reply = reply,
                  !.resp = IF reqs[s].handler = "app.all"
                           THEN McpAllFinish(reqs[s].body, reply)
                           ELSE McpPostFinish(reply),
                  !.sent = @ + 1]

\* The outbound request of slot s ends, and the handler runs to its response
ProviderReply(s) ==
  /\ reqs[s].st = "awaiting"
  /\ \E reply \in ProviderReplies :
       reqs' = [reqs EXCEPT ![s] = Answered(s, reply)]
  /\ UNCHANGED <<env, cli, lib>>

\* The response is out and the exchange is over
Finish(s) ==
  /\ reqs[s].st = "done"
  /\ reqs' = [reqs EXCEPT ![s] = IdleReq]
  /\ UNCHANGED <<env, cli, lib>>

\* The server, one request at a time
Next ==
  \/ ReceiveAll(1)
  \/ ReceiveGet(1)
  \/ ReceivePost(1)
  \/ ProviderReply(1)
  \/ Finish(1)

Spec == Init /\ [][Next]_vars

----------------------------------------------------------------------------
(* The server with several invocations in flight: the handler is async,    *)
(* so another request can start, and any outbound request can end, while   *)
(* one awaits.                                                             *)

ConcurrentCities == {Str(<<"London">>), Str(<<"Paris">>)}

\* Envelopes of currentWeather invocations that differ in id and city; one
\* shape of params has no city
ConcurrentBodies ==
  [jsonrpc : {JSONRPC}, id : {Num(0), Num(7), Str(<<"abc">>)},
   method : {Str(<<"weather", ".", "currentWeather">>)},
   params : ConcurrentCities \cup {[city |-> Str(<<" ", "Paris", " ">>)], Undefined}]

\* Replies that differ: a refusal, and two payloads that differ in every field
ConcurrentReplies ==
  {[kind |-> "status", statusText |-> <<"Bad Gateway">>],
   [kind |-> "json", data |-> WeatherPayload("a", <<Str(<<"Cloudy">>)>>)],
   [kind |-> "json", data |-> WeatherPayload("b", <<Str(<<"Rain">>)>>)]}

\* A tool invocation arrives at app.all('/mcp') while others may be in flight
ReceiveConcurrent(s) ==
  /\ reqs[s].st = "idle"
  /\ \E body \in ConcurrentBodies :
       reqs' = [reqs EXCEPT ![s] =
                  Started("app.all", "POST", body, McpAllStart("POST", body))]
  /\ UNCHANGED <<env, cli, lib>>

\* The outbound request of slot s ends, whatever the other slots are doing
ConcurrentReply(s) ==
  /\ reqs[s].st = "awaiting"
  /\ \E reply \in ConcurrentReplies :
       reqs' = [reqs EXCEPT ![s] = Answered(s, reply)]
  /\ UNCHANGED <<env, cli, lib>>

NextConcurrent ==
  \E s \in Slots : ReceiveConcurrent(s) \/ ConcurrentReply(s) \/ Finish(s)

SpecConcurrent == Init /\ [][NextConcurrent]_vars

----------------------------------------------------------------------------
(* The command-line process. *)

\* The process record after the entry point ran up to the end of its script
Launched(entry, args, p) ==
  [pc |-> p.pc, entry |-> entry, args |-> args, exit |-> p.exit, out |-> p.out,
   cityArg |-> p.cityArg, lookups |-> p.lookups, fetch |-> p.fetch,
   outbound |-> IF p.pc = "awaiting" THEN 1 ELSE 0, reply |-> NoReply]

\* weather-mcp <args>: the installed command
RunCli ==
  /\ cli.pc = "idle"
  /\ \E args \in ArgLists :
       cli' = Launched("bin/cli.js", args, CliEntry(args))
  /\ UNCHANGED <<env, reqs, lib>>

\* node src/index.js <args>
RunIndex ==
  /\ cli.pc = "idle"
  /\ \E args \in ArgLists \cup {<<<<"weather">>>> \o a : a \in ArgLists} :
       cli' = Launched("src/index.js", args, IndexModule(TRUE, args))
  /\ UNCHANGED <<env, reqs, lib>>

\* The lookup's outbound request ends; the promise chain prints and the
\* process, with nothing left to wait for, exits
CliProviderReply ==
  /\ cli.pc = "awaiting"
  /\ \E reply \in ProviderReplies :
       LET f == FetchFinish(reply)
       IN  cli' = [cli EXCEPT !.pc = "exited", !.fetch = f, !.reply = reply,
                              !.out = @ \o CliSettle(f)]
  /\ UNCHANGED <<env, reqs, lib>>

NextCli == RunCli \/ RunIndex \/ CliProviderReply

SpecCli == Init /\ [][NextCli]_vars

----------------------------------------------------------------------------
(* A caller of the library. *)

\* fetchWeatherData(city) or getWeatherForCity(city) is called
LibCall ==
  /\ lib.pc = "idle"
  /\ \E fn \in {"fetchWeatherData", "getWeatherForCity"}, city \in LibCities :
       LET f == FetchStart(city)
       IN  lib' = IF f.tag = "throw"
                  THEN [pc |-> "settled", fn |-> fn, city |-> city, fetch |-> f,
                        outbound |-> 0, reply |-> NoReply, settled |-> Settle(fn, f)]
                  ELSE [pc |-> "awaiting", fn |-> fn, city |-> city, fetch |-> f,
                        outbound |-> 1, reply |-> NoReply,
                        settled |-> [tag |-> "pending"]]
  /\ UNCHANGED <<env, reqs, cli>>

\* The call's outbound request ends and its promise settles
LibProviderReply ==
  /\ lib.pc = "awaiting"
  /\ \E reply \in ProviderReplies :
       LET f == FetchFinish(reply)
       IN  lib' = [lib EXCEPT !.pc = "settled", !.fetch = f, !.reply = reply,
                              !.settled = Settle(lib.fn, f)]
  /\ UNCHANGED <<env, reqs, cli>>

\* The caller goes on to its next call
LibReturn ==
  /\ lib.pc = "settled"
  /\ lib' = IdleLib
  /\ UNCHANGED <<env, reqs, cli>>

NextLib == LibCall \/ LibProviderReply \/ LibReturn

SpecLib == Init /\ [][NextLib]_vars

----------------------------------------------------------------------------
(* Properties of the request handlers, checked under Spec. *)

CurrentWeatherName == Str(<<"currentWeather">>)

QualifiedName == Str(<<"weather", ".", "currentWeather">>)

\* A POST to the JSON-RPC handler that has run (to its await or its response)
IsRpcPost(r) == r.st # "idle" /\ r.handler = "app.all" /\ r.verb = "POST"

\* A response that is a rejection of the given code
IsRejection(resp, code) ==
  /\ "error" \in DOMAIN resp.body
  /\ "result" \notin DOMAIN resp.body
  /\ resp.body.error.code = code

\* The provider's reply is a failure: no connection, a status that is not
\* ok, a body that is no JSON, or an error object of any code
ProviderFailed(reply) ==
  \/ reply.kind \in {"reject", "status", "badjson"}
  \/ reply.kind = "json" /\ IsObject(reply.data) /\ "error" \in DOMAIN reply.data

\* C1: whenever the Provider Client fails in an invocation that reached it
\* (fetchWeatherData threw, before or after its outbound call, or the
\* provider's reply is a failure), the response is a success envelope with
\* status 200 whose result is exactly the UnavailableResult, in both handlers.
C1_ProviderFailureYieldsUnavailable ==
  \A s \in Slots :
    LET r == reqs[s]
    IN  (r.st = "done" /\ (r.fetch.tag = "throw" \/ ProviderFailed(r.reply)))
          => /\ r.resp.status = 200
             /\ "error" \notin DOMAIN r.resp.body
             /\ "result" \in DOMAIN r.resp.body
             /\ r.resp.body.result = UnavailableResult

\* A JSON-RPC invocation answered after the provider refused the request
C1_Witness ==
  \E s \in Slots :
    /\ reqs[s].st = "done" /\ reqs[s].handler = "app.all"
    /\ reqs[s].outbound = 1 /\ reqs[s].reply.kind = "status"
    /\ reqs[s].resp.body.result = UnavailableResult

\* The params carry no city: neither a string nor an object with a city
\* attribute, or the city is missing or empty
ParamsLackCity(p) ==
  \/ ~IsStr(p) /\ ~(IsObject(p) /\ "city" \in DOMAIN p)
  \/ IsStr(p) /\ p.str = <<>>
  \/ IsObject(p) /\ "city" \in DOMAIN p /\ p.city \in {Undefined, Null, Str(<<>>)}

\* C2: a currentWeather invocation (either method form) with a valid version
\* whose params carry no city is answered at once with the rejection -32602
\* 'Invalid params'; fetchWeatherData is not invoked and no outbound request
\* is issued.
C2_MissingCityRejected ==
  \A s \in Slots :
    LET r == reqs[s]
    IN  (/\ IsRpcPost(r) /\ CanRead(r.body)
         /\ r.body.jsonrpc = JSONRPC
         /\ r.body.method \in {CurrentWeatherName, QualifiedName}
         /\ ParamsLackCity(r.body.params))
          => /\ r.st = "done"
             /\ r.outbound = 0
             /\ r.fetch = NotInvoked
             /\ r.resp.status = 200
             /\ IsRejection(r.resp, -32602)
             /\ r.resp.body.error.message = "Invalid params"

\* A currentWeather invocation whose params are a number, rejected
C2_Witness ==
  \E s \in Slots :
    /\ IsRpcPost(reqs[s]) /\ CanRead(reqs[s].body)
    /\ reqs[s].body.jsonrpc = JSONRPC
    /\ reqs[s].body.method = QualifiedName
    /\ reqs[s].body.params = Num(5)
    /\ reqs[s].st = "done"
    /\ IsRejection(reqs[s].resp, -32602)

\* The protocol version marker of a body: absent when there is no body
VersionOf(body) == IF CanRead(body) THEN Get(body, "jsonrpc") ELSE Undefined

\* C3 as stated: every POST whose version marker is absent or differs from
\* "2.0" is rejected with -32600 and issues no provider request.
C3_AsStated ==
  \A s \in Slots :
    LET r == reqs[s]
    IN  (IsRpcPost(r) /\ VersionOf(r.body) # JSONRPC)
          => /\ r.st = "done"
             /\ r.outbound = 0
             /\ IsRejection(r.resp, -32600)

\* C3, amended: every POST that carries a body whose version marker is absent
\* or differs from "2.0" is rejected with -32600, whatever its method and
\* params are, and neither fetchWeatherData nor the provider is reached.
C3_BadVersionRejected ==
  \A s \in Slots :
    LET r == reqs[s]
    IN  (IsRpcPost(r) /\ CanRead(r.body) /\ VersionOf(r.body) # JSONRPC)
          => /\ r.st = "done"
             /\ r.outbound = 0
             /\ r.fetch = NotInvoked
             /\ r.resp.status = 200
             /\ IsRejection(r.resp, -32600)

\* An otherwise valid currentWeather invocation of version "1.0", rejected
C3_Witness ==
  \E s \in Slots :
    /\ IsRpcPost(reqs[s]) /\ CanRead(reqs[s].body)
    /\ reqs[s].body.jsonrpc = Str(<<"1.0">>)
    /\ reqs[s].body.method = CurrentWeatherName
    /\ reqs[s].body.params = Str(<<"London">>)
    /\ reqs[s].st = "done"
    /\ IsRejection(reqs[s].resp, -32600)

\* C4: every response to a POST that supplied a correlation identifier (an id
\* that is not null) carries that identifier unchanged.
C4_IdEchoed ==
  \A s \in Slots :
    LET r == reqs[s]
    IN  (/\ IsRpcPost(r) /\ r.st = "done" /\ CanRead(r.body)
         /\ ~IsUndefined(r.body.id) /\ ~IsNull(r.body.id))
          => /\ "id" \in DOMAIN r.resp.body
             /\ r.resp.body.id = r.body.id

\* The other form of the currentWeather method name
OtherForm(m) == IF m = CurrentWeatherName THEN QualifiedName ELSE CurrentWeatherName

\* C5: "currentWeather" and "weather.currentWeather" resolve to the pair
\* ("weather", "currentWeather"), and the response to an invocation with one
\* of them is the response the handler gives to the same invocation with the
\* other one (same id, params, credential and provider reply).
C5_MethodFormsAgree ==
  \A s \in Slots :
    LET r == reqs[s]
    IN  (/\ IsRpcPost(r) /\ r.st = "done" /\ CanRead(r.body)
         /\ r.body.method \in {CurrentWeatherName, QualifiedName})
          => LET twin == [r.body EXCEPT !.method = OtherForm(@)]
                 start == McpAllStart("POST", twin)
             IN  /\ ResolveMethod(r.body.method.str)
                      = [tool |-> Str(<<"weather">>), operation |-> CurrentWeatherName]
                 /\ ResolveMethod(twin.method.str) = ResolveMethod(r.body.method.str)
                 /\ (start.tag = "respond") <=> (r.reply = NoReply)
                 /\ r.resp = IF r.reply = NoReply THEN start.resp
                             ELSE McpAllFinish(twin, r.reply)

\* An invocation of the bare form answered with weather data
C5_Witness ==
  \E s \in Slots :
    /\ IsRpcPost(reqs[s]) /\ reqs[s].st = "done" /\ CanRead(reqs[s].body)
    /\ reqs[s].body.method = CurrentWeatherName
    /\ reqs[s].reply.kind = "json"
    /\ reqs[s].reply.data \in WellFormedPayloads
    /\ "result" \in DOMAIN reqs[s].resp.body
    /\ reqs[s].resp.body.result # UnavailableResult

NormalizedFields == {"city", "country", "region", "localtime", "current"}

CurrentFields ==
  {"temperature", "temperatureUnit", "weather", "weatherIcon", "windSpeed",
   "windDirection", "humidity", "feelsLike", "uvIndex", "visibility",
   "precipitation", "cloudCover", "pressure"}

\* C6: when the provider answers with a well-formed payload, the response of
\* either handler is a success whose result has exactly the fields of
\* NormalizedWeather: temperatureUnit is "C", weather is the descriptions in
\* order with the separator ", " between neighbours, weatherIcon is the first
\* icon, and every other field is the value of its fixed provider field.
C6_ResultIsNormalized ==
  \A s \in Slots :
    LET r == reqs[s]
    IN  (r.st = "done" /\ r.reply.kind = "json" /\ r.reply.data \in WellFormedPayloads)
          => LET d == r.reply.data
                 res == r.resp.body.result
                 descs == d.current.weather_descriptions.arr
                 w == res.current.weather.str
             IN  /\ r.resp.status = 200
                 /\ DOMAIN r.resp.body
                      = (IF r.handler = "app.all" THEN {"jsonrpc", "id", "result"}
                         ELSE {"result"})
                 /\ DOMAIN res = NormalizedFields
                 /\ DOMAIN res.current = CurrentFields
                 /\ res.current.temperatureUnit = Str(<<"C">>)
                 /\ IsStr(res.current.weather)
                 /\ Len(w) = (IF descs = <<>> THEN 0 ELSE 2 * Len(descs) - 1)
                 /\ \A i \in 1..Len(descs) : <<w[2 * i - 1]>> = descs[i].str
                 /\ \A i \in 1..(Len(descs) - 1) : w[2 * i] = ", "
                 /\ res.city = d.location.name
                 /\ res.country = d.location.country
                 /\ res.region = d.location.region
                 /\ res.localtime = d.location.localtime
                 /\ res.current.temperature = d.current.temperature
                 /\ res.current.weatherIcon = d.current.weather_icons.arr[1]
                 /\ res.current.windSpeed = d.current.wind_speed
                 /\ res.current.windDirection = d.current.wind_dir
                 /\ res.current.humidity = d.current.humidity
                 /\ res.current.feelsLike = d.current.feelslike
                 /\ res.current.uvIndex = d.current.uv_index
                 /\ res.current.visibility = d.current.visibility
                 /\ res.current.precipitation = d.current.precip
                 /\ res.current.cloudCover = d.current.cloudcover
                 /\ res.current.pressure = d.current.pressure

\* A success of the simplified handler for a payload with two descriptions
C6_Witness ==
  \E s \in Slots :
    /\ reqs[s].st = "done" /\ reqs[s].handler = "app.post"
    /\ reqs[s].reply.kind = "json"
    /\ reqs[s].reply.data \in WellFormedPayloads
    /\ Len(reqs[s].reply.data.current.weather_descriptions.arr) = 2
    /\ "current" \in DOMAIN reqs[s].resp.body.result

\* C10: a method with a separator resolves to the text before its first
\* separator as the tool and all the text after it as the operation, a method
\* without one to ("weather", method); whenever that pair is not ("weather",
\* "currentWeather") the invocation is rejected with -32601 and issues no
\* provider request.
C10_SplitAtFirstSeparator ==
  \A s \in Slots :
    LET r == reqs[s]
    IN  (/\ IsRpcPost(r) /\ CanRead(r.body)
         /\ r.body.jsonrpc = JSONRPC
         /\ IsStr(r.body.method) /\ Truthy(r.body.method))
          => LET m == r.body.method.str
                 i == IndexOf(m, ".")
                 tool == IF i = 0 THEN <<"weather">> ELSE SubSeq(m, 1, i - 1)
                 operation == IF i = 0 THEN m ELSE SubSeq(m, i + 1, Len(m))
             IN  (tool # <<"weather">> \/ operation # <<"currentWeather">>)
                   => /\ r.st = "done"
                      /\ r.outbound = 0
                      /\ IsRejection(r.resp, -32601)

----------------------------------------------------------------------------
(* Properties of the library functions, checked under SpecLib. *)

\* fetchWeatherData was called with a city that is a string with text in it
FetchCalledWithCity ==
  /\ lib.pc # "idle" /\ lib.fn = "fetchWeatherData"
  /\ IsStr(lib.city) /\ Trim(lib.city.str) # <<>>

\* The call failed with CredentialMissing and issued no outbound request
FailedCredentialMissing ==
  /\ lib.pc = "settled"
  /\ lib.settled = Rejected(CredentialMissing)
  /\ lib.outbound = 0

\* C7 as stated: whenever the configured environment value is empty or unset,
\* fetchWeatherData called with a non-empty city fails with CredentialMissing
\* and makes no outbound call.
C7_AsStated ==
  (FetchCalledWithCity /\ ~Truthy(env)) => FailedCredentialMissing

\* C7, amended: fetchWeatherData called with a non-empty city fails with
\* CredentialMissing, without an outbound call, whenever the access credential
\* is empty; but an empty or unset environment value does not make it empty:
\* the credential is then the built-in demonstration key, the call does not
\* fail with CredentialMissing and its outbound request carries that key.
C7_EmptyEnvFallsBack ==
  /\ (FetchCalledWithCity /\ ~isValidApiKey) => FailedCredentialMissing
  /\ ~Truthy(env) => (WEATHERSTACK_API_KEY = DEFAULT_API_KEY /\ isValidApiKey)
  /\ (FetchCalledWithCity /\ ~Truthy(env))
       => /\ lib.outbound = 1
          /\ lib.settled # Rejected(CredentialMissing)
          /\ lib.pc = "awaiting" => lib.fetch.access_key = DEFAULT_API_KEY

\* fetchWeatherData awaits the provider although the environment value is unset
C7_Witness ==
  /\ FetchCalledWithCity
  /\ env = Undefined
  /\ lib.pc = "awaiting"
  /\ lib.outbound = 1

----------------------------------------------------------------------------
(* Properties of the command line, checked under SpecCli. *)

\* C8: once the installed command, invoked with one or more positional
\* arguments that hold some text, has exited, the city was the arguments
\* joined with spaces, exactly one lookup was started for it, and the output
\* holds the report, the credential error message or the generic message.
C8_CliPrintsOutcome ==
  (/\ cli.pc = "exited" /\ cli.entry = "bin/cli.js"
   /\ Len(cli.args) >= 1 /\ Trim(JoinArgs(cli.args)) # <<>>)
    => /\ cli.cityArg = JoinArgs(cli.args)
       /\ cli.lookups = 1
       /\ \/ ReportComplete(cli.out)
          \/ \E i \in 1..Len(cli.out) : cli.out[i] = GenericLines[1]
          \/ \E i \in 1..Len(cli.out) :
               cli.out[i] = <<"Please set your Weatherstack API key using:">>

----------------------------------------------------------------------------
(* Properties of fetchWeatherData's validation, checked under SpecLib. *)

\* The city is empty after trimming: absent, empty, or whitespace only
EmptyAfterTrim(city) ==
  \/ city \in {Undefined, Null}
  \/ IsStr(city) /\ Trim(city.str) = <<>>

\* C11: fetchWeatherData called with a city that is empty after trimming
\* (absent, empty, or whitespace only) has failed with the InvalidInput error
\* 'City parameter is required' and has issued no outbound request.
C11_EmptyAfterTrimRejected ==
  (lib.pc # "idle" /\ lib.fn = "fetchWeatherData" /\ EmptyAfterTrim(lib.city))
    => /\ lib.pc = "settled"
       /\ lib.settled = Rejected(CityRequired)
       /\ lib.outbound = 0

----------------------------------------------------------------------------
(* Properties of the outbound requests of an invocation, checked under     *)
(* Spec.                                                                   *)

\* The envelope, the method and the city of a JSON-RPC body pass every check
\* the handler makes before it invokes fetchWeatherData
PassesValidation(body) ==
  /\ CanRead(body)
  /\ ~VersionRejected(Get(body, "jsonrpc"))
  /\ Truthy(Get(body, "method"))
  /\ IsStr(Get(body, "method"))
  /\ ResolveMethod(Get(body, "method").str)
       = [tool |-> Str(<<"weather">>), operation |-> CurrentWeatherName]
  /\ Truthy(ExtractCity(Get(body, "params")))

\* C12: a tool invocation issues at most one outbound provider request over
\* its lifetime: exactly one when its envelope, method and city pass
\* validation, none when it is answered with a rejection, and still only one
\* once the provider has failed (no retry).
C12_OneOutboundPerInvocation ==
  \A s \in Slots :
    LET r == reqs[s]
    IN  IsRpcPost(r)
          => /\ r.outbound <= 1
             /\ PassesValidation(r.body) => r.outbound = 1
             /\ (r.st = "done" /\ "error" \in DOMAIN r.resp.body) => r.outbound = 0
             /\ ProviderFailed(r.reply) => r.outbound = 1

----------------------------------------------------------------------------
(* Properties of the faults of an invocation, checked under Spec. *)

\* A fault raised outside the try block of the currentWeather branch: the
\* destructuring of an absent body, or method.includes on what is no string
OuterFault(r) ==
  /\ IsRpcPost(r)
  /\ \/ ~CanRead(r.body)
     \/ /\ ~VersionRejected(Get(r.body, "jsonrpc"))
        /\ Truthy(Get(r.body, "method"))
        /\ ~IsStr(Get(r.body, "method"))

\* A fault raised inside the try block of the currentWeather branch: a
\* TypeError in fetchWeatherData (trim of a city that is no string, a payload
\* that is null), or one while the result is built from the payload
InnerFault(r) ==
  /\ IsRpcPost(r)
  /\ \/ r.fetch.tag = "throw" /\ r.fetch.error.name = "TypeError"
     \/ r.fetch.tag = "return" /\ Normalize(r.fetch.value).tag = "throw"

\* C13 as stated: every unexpected fault raised while a tool invocation is
\* handled, outside or inside the currentWeather branch, is answered with the
\* rejection of code -32603, and the request has its response.
C13_AsStated ==
  \A s \in Slots :
    LET r == reqs[s]
    IN  (OuterFault(r) \/ InnerFault(r))
          => /\ r.st = "done" /\ r.sent = 1
             /\ IsRejection(r.resp, -32603)

\* C13, amended: a fault raised outside the try block of the currentWeather
\* branch (an absent body, a method that is no string) is answered by the
\* outer catch with status 500 and the rejection of code -32603; a fault
\* raised inside it is answered by the inner catch with status 200 and the
\* UnavailableResult in a success envelope; either way the fault leaves the
\* request with exactly one response.
C13_FaultsAnswered ==
  \A s \in Slots :
    LET r == reqs[s]
    IN  /\ OuterFault(r)
          => /\ r.st = "done" /\ r.sent = 1
             /\ r.resp.status = 500
             /\ IsRejection(r.resp, -32603)
        /\ InnerFault(r)
          => /\ r.st = "done" /\ r.sent = 1
             /\ r.resp.status = 200
             /\ "error" \notin DOMAIN r.resp.body
             /\ r.resp.body.result = UnavailableResult

\* An invocation whose method is a number has been answered with -32603
C13_Witness ==
  \E s \in Slots :
    /\ reqs[s].st = "done" /\ OuterFault(reqs[s])
    /\ CanRead(reqs[s].body) /\ IsNum(Get(reqs[s].body, "method"))
    /\ IsRejection(reqs[s].resp, -32603)

----------------------------------------------------------------------------
(* Properties of invocations in flight together, checked under             *)
(* SpecConcurrent.                                                         *)

\* The response of r is the one its own envelope and its own provider reply
\* determine, and the request it awaits is for its own city
OwnOutcome(r) ==
  /\ r.st = "awaiting"
       => r.fetch = FetchStart(ExtractCity(Get(r.body, "params")))
  /\ (r.st = "done" /\ r.outbound = 0)
       => r.resp = McpAllStart(r.verb, r.body).resp
  /\ (r.st = "done" /\ r.outbound = 1)
       => /\ r.resp = McpAllFinish(r.body, r.reply)
          /\ (r.reply.kind = "json" /\ "result" \in DOMAIN r.resp.body)
               => /\ r.resp.body.result.city = r.reply.data.location.name
                  /\ r.resp.body.result.current.temperature
                       = r.reply.data.current.temperature

\* With invocations in flight together, the outcome of each is its own, with
\* the id as the handler sends it (id || null)
InvocationsIndependent ==
  \A s \in Slots :
    LET r == reqs[s]
    IN  IsRpcPost(r)
          => /\ OwnOutcome(r)
             /\ r.st = "done" => r.resp.body.id = IdOrNull(Get(r.body, "id"))

\* Two invocations with different ids and cities were in flight together and
\* both are answered, each from a different reply
BothAnswered ==
  /\ reqs[1].st = "done" /\ reqs[2].st = "done"
  /\ reqs[1].outbound = 1 /\ reqs[2].outbound = 1
  /\ reqs[1].body.id # reqs[2].body.id
  /\ reqs[1].body.params # reqs[2].body.params
  /\ reqs[1].reply # reqs[2].reply

\* C14: with several tool invocations in flight at once and their provider
\* replies arriving in any order, the response of each depends only on its own
\* envelope and its own provider reply: it echoes its own id and reports the
\* data of its own city, whatever the other invocations do.
C14_ResponsesAreOwn ==
  \A s \in Slots :
    LET r == reqs[s]
    IN  IsRpcPost(r)
          => /\ OwnOutcome(r)
             /\ r.st = "done" => r.resp.body.id = Get(r.body, "id")

----------------------------------------------------------------------------
(* Properties of the responses of a request, checked under Spec. *)

\* The responses sent for the request of slot s so far are right for where
\* its handler is: none while it awaits its outbound request, one once it is
\* through
ResponseCountRight(s) ==
  LET r == reqs[s]
  IN  /\ r.sent \in {0, 1}
      /\ r.st = "done" => (r.sent = 1 /\ r.resp # NoResponse)
      /\ r.st = "awaiting" => (r.sent = 0 /\ r.outbound = 1 /\ r.resp = NoResponse)

\* C15: every request to /mcp, in both handler variants and on every path
\* (capabilities, each rejection, success, provider failure, internal fault),
\* is answered with exactly one response: a request whose handler is through
\* has one response, the only requests without one are those that await
\* their outbound request, the end of that request (a reply or a failure)
\* brings the one response, and nothing is sent after it.
C15_ExactlyOneResponse ==
  /\ [](\A s \in Slots : ResponseCountRight(s))
  /\ [][\A s \in Slots :
          (reqs[s].st = "awaiting" /\ reqs'[s] # reqs[s])
            => (reqs'[s].st = "done" /\ reqs'[s].sent = 1)]_vars
  /\ [][\A s \in Slots :
          (reqs[s].st = "done" /\ reqs'[s] # reqs[s]) => reqs'[s] = IdleReq]_vars

\* A request to the simplified handler whose outbound request found no
\* connection has its one response
C15_Witness ==
  \E s \in Slots :
    /\ reqs[s].st = "done" /\ reqs[s].handler = "app.post"
    /\ reqs[s].outbound = 1 /\ reqs[s].reply.kind = "reject"
    /\ reqs[s].sent = 1 /\ reqs[s].resp.status = 200

====
